---- MODULE Spec2Model ----
(***************************************************************************)
(* A model of the atlas_exec command client (src/src/atlas.rs), of the     *)
(* response model it decodes into (src/src/atlas_models.rs) and of the     *)
(* NonEmptyString wrapper (src/src/util.rs).                               *)
(*                                                                         *)
(* Conventions                                                             *)
(*   Option<T>     a sequence of length at most one: <<>> is None,         *)
(*                 <<v>> is Some(v).                                       *)
(*   Result<T>     [ok |-> TRUE, val |-> v] or [ok |-> FALSE, val |-> e].  *)
(*   Vec<u8>       the captured stdout / stderr: a sequence of units. A    *)
(*                 unit is a run of bytes: a whitespace run, a byte that   *)
(*                 is not valid UTF-8, or a run of text.                   *)
(*   String        a TLA+ string; String::from_utf8 fails on a sequence    *)
(*                 that holds an invalid byte, and to_string joins the     *)
(*                 units that are left after trim.                         *)
(*   JSON          a tree [t, s, n, a, k]; serde_json::to_string is        *)
(*                 Render, and serde_json::from_str is its inverse on the  *)
(*                 documents of the model.                                 *)
(***************************************************************************)
EXTENDS Integers, Sequences, FiniteSets, TLC

VARIABLES
    exec_path,     \* Client.exec_path, None while no client is constructed
    working_dir,   \* Client.working_dir : Option<String>
    ambient,       \* ATLAS_NO_UPDATE_NOTIFIER in the environment of the caller (Option)
    child_env,     \* ATLAS_NO_UPDATE_NOTIFIER in the environment of the subprocess
    op,            \* the call that ran last ("start" before any, "new" for the constructor)
    params,        \* the parameter object of that call
    argv,          \* the argument vector handed to the subprocess
    cwd,           \* the directory the subprocess was started in (Option)
    spawned,       \* how many subprocesses the call started
    decoded,       \* whether the call handed stdout to serde_json::from_str
    output,        \* what the subprocess did: spawn failure or exit status, stdout, stderr
    result         \* what the call returned

vars ==
    <<exec_path, working_dir, ambient, child_env, op, params, argv, cwd, spawned, decoded,
      output, result>>

----------------------------------------------------------------------------
(* Bounds of the model *)

MaxUnits == 2      \* units in a captured stdout / stderr
MaxVars == 2       \* entries in a Vars map
MaxList == 2       \* entries in a schema / exclude list

----------------------------------------------------------------------------
(* Option and Result *)

None == <<>>
Some(v) == <<v>>
IsSome(o) == Len(o) = 1
IsNone(o) == Len(o) = 0
Unwrap(o) == o[1]
OptionOf(S) == {None} \cup {Some(v) : v \in S}

Ok(v) == [ok |-> TRUE, val |-> v]
Err(e) == [ok |-> FALSE, val |-> e]

\* the errors of the client: kind names the anyhow! site by the error it stands
\* for, status and text are the values the message interpolates
Error(kind, status, text) == [kind |-> kind, status |-> status, text |-> text]

----------------------------------------------------------------------------
(* Sequences *)

RECURSIVE Concat(_)
Concat(ss) == IF ss = <<>> THEN <<>> ELSE Head(ss) \o Concat(Tail(ss))

RECURSIVE JoinStr(_, _)
JoinStr(ss, sep) ==
    IF ss = <<>> THEN ""
    ELSE IF Len(ss) = 1 THEN ss[1]
    ELSE ss[1] \o sep \o JoinStr(Tail(ss), sep)

SeqsUpTo(S, n) == UNION {[1..k -> S] : k \in 0..n}

----------------------------------------------------------------------------
(* JSON values and serde_json *)

\* a JSON value: t is its type; s holds a string, n a number, a the items of
\* an array or the values of an object, k the keys of an object
J(t, s, n, a, k) == [t |-> t, s |-> s, n |-> n, a |-> a, k |-> k]
JNull == J("null", "", 0, <<>>, <<>>)
JStr(s) == J("str", s, 0, <<>>, <<>>)
JNum(n) == J("num", "", n, <<>>, <<>>)
JArr(a) == J("arr", "", 0, a, <<>>)
\* m: the members of the object, a sequence of <<key, value>>
JObj(m) == J("obj", "", 0, [i \in 1..Len(m) |-> m[i][2]], [i \in 1..Len(m) |-> m[i][1]])

Members(j) == [i \in 1..Len(j.k) |-> <<j.k[i], j.a[i]>>]
HasKey(j, key) == \E i \in 1..Len(j.k) : j.k[i] = key
GetKey(j, key) == j.a[CHOOSE i \in 1..Len(j.k) : j.k[i] = key]

RECURSIVE Render(_)
RECURSIVE RenderItems(_)
RECURSIVE RenderMembers(_, _)
RenderItems(a) ==
    IF a = <<>> THEN ""
    ELSE IF Len(a) = 1 THEN Render(a[1])
    ELSE Render(a[1]) \o "," \o RenderItems(Tail(a))
RenderMembers(k, a) ==
    IF k = <<>> THEN ""
    ELSE IF Len(k) = 1 THEN "\"" \o k[1] \o "\":" \o Render(a[1])
    ELSE "\"" \o k[1] \o "\":" \o Render(a[1]) \o "," \o RenderMembers(Tail(k), Tail(a))
Render(j) ==
    CASE j.t = "null" -> "null"
      [] j.t = "str" -> "\"" \o j.s \o "\""
      [] j.t = "num" -> ToString(j.n)
      [] j.t = "arr" -> "[" \o RenderItems(j.a) \o "]"
      [] j.t = "obj" -> "{" \o RenderMembers(j.k, j.a) \o "}"

----------------------------------------------------------------------------
(* The response model: src/src/atlas_models.rs *)

\* the type of a field: k is the kind, of names the element / struct type
TString == [k |-> "string", of |-> ""]
TIsize == [k |-> "isize", of |-> ""]
TTime == [k |-> "time", of |-> ""]
TVec(of) == [k |-> "vec", of |-> of]
TOption(of) == [k |-> "option", of |-> of]
TStruct(of) == [k |-> "struct", of |-> of]
TFlatten(of) == [k |-> "flatten", of |-> of]
TEnum(of) == [k |-> "enum", of |-> of]

\* one field of a struct: its name, its name on the wire, its type, the
\* skip_serializing_if predicate ("" when there is none) and whether the field
\* has a #[serde(default = ...)] attribute
F(name, key, ty, skip, dflt) ==
    [name |-> name, key |-> key, ty |-> ty, skip |-> skip, dflt |-> dflt]

File ==
    << F("name", "Name", TString, "String::is_empty", FALSE),
       F("version", "Version", TString, "String::is_empty", FALSE),
       F("description", "Description", TString, "String::is_empty", FALSE) >>

SqlError ==
    << F("sql", "SQL", TString, "", FALSE),
       F("error", "Error", TString, "", FALSE) >>

AppliedFile ==
    << F("file", "", TFlatten("File"), "", FALSE),
       F("start", "Start", TTime, "", TRUE),
       F("end", "End", TTime, "", TRUE),
       F("skipped", "Skipped", TIsize, "", FALSE),
       F("applied", "Applied", TVec("String"), "", FALSE),
       F("error", "Error", TOption("SqlError"), "", FALSE) >>

RevertedFile ==
    << F("file", "", TFlatten("File"), "", FALSE),
       F("start", "Start", TTime, "", TRUE),
       F("end", "End", TTime, "", TRUE),
       F("skipped", "Skipped", TIsize, "", FALSE),
       F("applied", "Applied", TVec("String"), "", FALSE),
       F("scope", "Scope", TString, "", FALSE),
       F("error", "Error", TOption("SqlError"), "", FALSE) >>

MigrateApply ==
    << F("pending", "Pending", TVec("File"), "Vec::is_empty", FALSE),
       F("applied", "Applied", TVec("AppliedFile"), "Vec::is_empty", FALSE),
       F("current", "Current", TString, "String::is_empty", FALSE),
       F("target", "Target", TString, "String::is_empty", FALSE),
       F("start", "Start", TTime, "", TRUE),
       F("end", "End", TTime, "", TRUE),
       F("error", "Error", TString, "String::is_empty", FALSE) >>

MigrateDown ==
    << F("planned", "Planned", TVec("File"), "Vec::is_empty", FALSE),
       F("reverted", "Reverted", TVec("RevertedFile"), "Vec::is_empty", FALSE),
       F("current", "Current", TString, "String::is_empty", FALSE),
       F("target", "Target", TString, "String::is_empty", FALSE),
       F("total", "Total", TIsize, "isize_is_zero", FALSE),
       F("start", "Start", TTime, "", TRUE),
       F("end", "End", TTime, "", TRUE),
       F("url", "URL", TString, "String::is_empty", FALSE),
       F("status", "Status", TString, "String::is_empty", FALSE),
       F("error", "Error", TString, "String::is_empty", FALSE) >>

Env ==
    << F("driver", "Driver", TString, "String::is_empty", FALSE),
       F("url", "URL", TString, "String::is_empty", FALSE),
       F("dir", "Dir", TString, "String::is_empty", FALSE) >>

StmtError ==
    << F("stmt", "Stmt", TString, "String::is_empty", FALSE),
       F("text", "Text", TString, "String::is_empty", FALSE) >>

Changes ==
    << F("applied", "Applied", TVec("String"), "Vec::is_empty", FALSE),
       F("pending", "Pending", TVec("String"), "Vec::is_empty", FALSE),
       F("error", "Error", TOption("StmtError"), "Option::is_none", FALSE) >>

SchemaApply ==
    << F("env", "", TFlatten("Env"), "", FALSE),
       F("changes", "Changes", TStruct("Changes"), "changes_all_zero", FALSE),
       F("error", "Error", TString, "String::is_empty", FALSE) >>

\* the outbound payloads: src/src/atlas.rs
DeployRunContext ==
    << F("trigger_type", "trigger_type", TEnum("TriggerType"), "", FALSE),
       F("trigger_version", "trigger_version", TString, "", FALSE) >>

RunContext ==
    << F("repo", "repo", TString, "", FALSE),
       F("path", "path", TString, "", FALSE),
       F("branch", "branch", TString, "", FALSE),
       F("commit", "commit", TString, "", FALSE),
       F("url", "url", TString, "", FALSE),
       F("username", "username", TString, "", FALSE),
       F("user_id", "userID", TString, "", FALSE),
       F("scm_type", "scmType", TString, "", FALSE) >>

\* the string of an enum variant: its serde rename, which is its strum
\* serialization too
TriggerType(variant) ==
    CASE variant = "Cli" -> "CLI"
      [] variant = "Kubernetes" -> "KUBERNETES"
      [] variant = "Terraform" -> "TERRAFORM"
      [] variant = "GithubAction" -> "GITHUB_ACTION"
      [] variant = "CircleCiOrb" -> "CIRCLECI_ORB"

MigrateExecOrder(variant) ==
    CASE variant = "Linear" -> "linear"
      [] variant = "LinearSkip" -> "linear-skip"
      [] variant = "NonLinear" -> "non-linear"

Variants(enum) ==
    IF enum = "TriggerType"
    THEN {"Cli", "Kubernetes", "Terraform", "GithubAction", "CircleCiOrb"}
    ELSE {"Linear", "LinearSkip", "NonLinear"}

VariantName(enum, variant) ==
    IF enum = "TriggerType" THEN TriggerType(variant) ELSE MigrateExecOrder(variant)

Fields(struct) ==
    CASE struct = "File" -> File
      [] struct = "DeployRunContext" -> DeployRunContext
      [] struct = "RunContext" -> RunContext
      [] struct = "SqlError" -> SqlError
      [] struct = "AppliedFile" -> AppliedFile
      [] struct = "RevertedFile" -> RevertedFile
      [] struct = "MigrateApply" -> MigrateApply
      [] struct = "MigrateDown" -> MigrateDown
      [] struct = "Env" -> Env
      [] struct = "StmtError" -> StmtError
      [] struct = "Changes" -> Changes
      [] struct = "SchemaApply" -> SchemaApply

default_time == "0001-01-01 0:00"

isize_is_zero(val) == val = 0

changes_all_zero(changes) ==
    changes["applied"] = <<>> /\ changes["pending"] = <<>> /\ changes["error"] = None

----------------------------------------------------------------------------
(* serde: the Deserialize and Serialize the derives generate *)

HasFlatten(struct) == \E i \in 1..Len(Fields(struct)) : Fields(struct)[i].ty.k = "flatten"

\* the first failure among the results rs, or the value build(rs) when none failed
Collect(rs, value) ==
    IF \A i \in 1..Len(rs) : rs[i].ok THEN Ok(value)
    ELSE rs[CHOOSE i \in 1..Len(rs) : ~rs[i].ok /\ \A k \in 1..(i - 1) : rs[k].ok]

RECURSIVE DecodeStruct(_, _)
RECURSIVE DecodeOf(_, _)
RECURSIVE DecodeTy(_, _)
RECURSIVE DecodeField(_, _)
RECURSIVE DecodeElement(_, _, _)

DecodeOf(of, j) ==
    IF of = "String"
    THEN IF j.t = "str" THEN Ok(j.s) ELSE Err("invalid type: expected a string")
    ELSE DecodeStruct(of, j)

DecodeTy(ty, j) ==
    CASE ty.k = "string" ->
            IF j.t = "str" THEN Ok(j.s) ELSE Err("invalid type: expected a string")
      [] ty.k = "isize" ->
            IF j.t = "num" THEN Ok(j.n) ELSE Err("invalid type: expected isize")
      [] ty.k = "time" ->
            IF j.t = "str" THEN Ok(j.s) ELSE Err("invalid type: expected a PrimitiveDateTime")
      [] ty.k = "vec" ->
            IF j.t # "arr" THEN Err("invalid type: expected a sequence")
            ELSE LET rs == [i \in 1..Len(j.a) |-> DecodeOf(ty.of, j.a[i])]
                 IN  Collect(rs, [i \in 1..Len(j.a) |-> rs[i].val])
      [] ty.k = "option" ->
            IF j.t = "null" THEN Ok(None)
            ELSE LET r == DecodeOf(ty.of, j)
                 IN  IF r.ok THEN Ok(Some(r.val)) ELSE r
      [] ty.k = "enum" ->
            IF j.t = "str" /\ \E x \in Variants(ty.of) : VariantName(ty.of, x) = j.s
            THEN Ok(CHOOSE x \in Variants(ty.of) : VariantName(ty.of, x) = j.s)
            ELSE Err("unknown variant")
      [] ty.k = "struct" -> DecodeStruct(ty.of, j)

\* a field of a struct read from the JSON object j (visit_map)
DecodeField(f, j) ==
    IF f.ty.k = "flatten" THEN DecodeStruct(f.ty.of, j)
    ELSE IF HasKey(j, f.key) THEN DecodeTy(f.ty, GetKey(j, f.key))
    ELSE IF f.dflt THEN Ok(default_time)
    ELSE IF f.ty.k = "option" THEN Ok(None)
    ELSE Err("missing field " \o f.key)

\* the i-th field of a struct read from the JSON array j (visit_seq)
DecodeElement(f, i, j) ==
    IF i <= Len(j.a) THEN DecodeTy(f.ty, j.a[i])
    ELSE IF f.dflt THEN Ok(default_time)
    ELSE Err("invalid length")

DecodeStruct(struct, j) ==
    LET fs == Fields(struct)
        names == {fs[i].name : i \in 1..Len(fs)}
        at(n) == CHOOSE i \in 1..Len(fs) : fs[i].name = n
    IN  CASE j.t = "obj" ->
                LET rs == [i \in 1..Len(fs) |-> DecodeField(fs[i], j)]
                IN  Collect(rs, [n \in names |-> rs[at(n)].val])
          [] j.t = "arr" /\ ~HasFlatten(struct) ->
                LET rs == [i \in 1..Len(fs) |-> DecodeElement(fs[i], i, j)]
                IN  Collect(rs, [n \in names |-> rs[at(n)].val])
          [] OTHER -> Err("invalid type: expected struct " \o struct)

Skipped(f, v) ==
    CASE f.skip = "String::is_empty" -> v = ""
      [] f.skip = "Vec::is_empty" -> v = <<>>
      [] f.skip = "Option::is_none" -> v = None
      [] f.skip = "isize_is_zero" -> isize_is_zero(v)
      [] f.skip = "changes_all_zero" -> changes_all_zero(v)
      [] OTHER -> FALSE

RECURSIVE EncodeStruct(_, _)
RECURSIVE EncodeOf(_, _)
RECURSIVE EncodeTy(_, _)
RECURSIVE EncodeField(_, _)

EncodeOf(of, v) == IF of = "String" THEN JStr(v) ELSE EncodeStruct(of, v)

EncodeTy(ty, v) ==
    CASE ty.k = "string" -> JStr(v)
      [] ty.k = "isize" -> JNum(v)
      [] ty.k = "time" -> JStr(v)
      [] ty.k = "vec" -> JArr([i \in 1..Len(v) |-> EncodeOf(ty.of, v[i])])
      [] ty.k = "option" -> IF v = None THEN JNull ELSE EncodeOf(ty.of, Unwrap(v))
      [] ty.k = "enum" -> JStr(VariantName(ty.of, v))
      [] ty.k = "struct" -> EncodeStruct(ty.of, v)

\* the <<key, value>> pairs a field contributes to the object of its struct
EncodeField(f, v) ==
    IF f.ty.k = "flatten" THEN Members(EncodeStruct(f.ty.of, v))
    ELSE IF Skipped(f, v) THEN <<>>
    ELSE << <<f.key, EncodeTy(f.ty, v)>> >>

EncodeStruct(struct, v) ==
    LET fs == Fields(struct)
    IN  JObj(Concat([i \in 1..Len(fs) |-> EncodeField(fs[i], v[fs[i].name])]))

----------------------------------------------------------------------------
(* Captured process output: String::from_utf8 and str::trim *)

Invalid == "<0xFF>"                      \* a byte that is not valid UTF-8
IsWhitespace(u) == u \in {" ", "\n"}

from_utf8(bytes) ==
    IF \E i \in 1..Len(bytes) : bytes[i] = Invalid THEN Err("invalid utf-8") ELSE Ok(bytes)

RECURSIVE trim_start(_)
trim_start(str) ==
    IF str # <<>> /\ IsWhitespace(Head(str)) THEN trim_start(Tail(str)) ELSE str

RECURSIVE trim_end(_)
trim_end(str) ==
    IF str # <<>> /\ IsWhitespace(str[Len(str)])
    THEN trim_end(SubSeq(str, 1, Len(str) - 1))
    ELSE str

trim(str) == trim_end(trim_start(str))

\* the String a sequence of units spells
to_string(str) == JoinStr(str, "")

----------------------------------------------------------------------------
(* The documents of the model and serde_json::from_str / to_string *)

FileObject ==
    JObj(<< <<"Name", JStr("1.sql")>>, <<"Version", JStr("1")>>,
            <<"Description", JStr("")>> >>)

\* the stdout of section 8 of the specification, inside its array
ExampleObject ==
    JObj(<< <<"Current", JStr("v1")>>, <<"Target", JStr("v2")>>,
            <<"Applied", JArr(<<>>)>> >>)

ApplyObject ==
    JObj(<< <<"Pending", JArr(<<FileObject>>)>>, <<"Applied", JArr(<<>>)>>,
            <<"Current", JStr("v1")>>, <<"Target", JStr("v2")>>,
            <<"Error", JStr("")>> >>)

DownObject ==
    JObj(<< <<"Planned", JArr(<<>>)>>, <<"Reverted", JArr(<<>>)>>,
            <<"Current", JStr("v2")>>, <<"Target", JStr("v1")>>,
            <<"Total", JNum(1)>>, <<"URL", JStr("")>>,
            <<"Status", JStr("APPLIED")>>, <<"Error", JStr("")>> >>)

SchemaObject ==
    JObj(<< <<"Driver", JStr("sqlite3")>>, <<"URL", JStr("")>>, <<"Dir", JStr("")>>,
            <<"Changes", JObj(<< <<"Applied", JArr(<<JStr("CREATE TABLE t")>>)>>,
                                 <<"Pending", JArr(<<>>)>> >>)>>,
            <<"Error", JStr("")>> >>)

StdoutDocuments ==
    { JArr(<<>>), JObj(<<>>), JArr(<<ExampleObject>>),
      JArr(<<ApplyObject>>), JArr(<<ApplyObject, ApplyObject>>),
      JArr(<<DownObject>>), JArr(<<DownObject, DownObject>>),
      JArr(<<SchemaObject>>), JArr(<<SchemaObject, SchemaObject>>) }

\* the values of File, Env and Changes that are encoded and decoded back
Strings == {"", "a"}
FileValues == [name : Strings, version : Strings, description : Strings]
EnvValues == [driver : Strings, url : Strings, dir : Strings]
StmtErrorValues == [stmt : Strings, text : {""}]
ChangesValues ==
    [applied : SeqsUpTo({"c"}, MaxList), pending : SeqsUpTo({"c"}, MaxList),
     error : OptionOf(StmtErrorValues)]

ValuesOf(struct) ==
    CASE struct = "File" -> FileValues
      [] struct = "Env" -> EnvValues
      [] struct = "Changes" -> ChangesValues

Documents ==
    StdoutDocuments
        \cup UNION {{EncodeStruct(struct, v) : v \in ValuesOf(struct)} :
                        struct \in {"File", "Env", "Changes"}}

\* the compact text of every document
DocumentText == [d \in Documents |-> Render(d)]

\* serde_json's parser: the document whose text this is, if any
ParseJson(text) ==
    IF \E d \in Documents : DocumentText[d] = text
    THEN Ok(CHOOSE d \in Documents : DocumentText[d] = text)
    ELSE Err("syntax error")

\* the typed value of a parsed document
deserialize(ty, parsed) == IF parsed.ok THEN DecodeTy(ty, parsed.val) ELSE parsed

from_str(ty, text) == deserialize(ty, ParseJson(text))

\* serde_json::to_string: serializing these structs cannot fail
to_json_string(struct, v) == Render(EncodeStruct(struct, v))

----------------------------------------------------------------------------
(* Parameter objects: src/src/atlas.rs *)

\* Vars: a map from String to String, here a function on a set of keys
\* NonEmptyString::new, TryFrom<String> and the Deserialize visitor (src/src/util.rs):
\* the wrapped string, or an error for the empty string
NonEmptyString_new(s) ==
    IF s = "" THEN Err(Error("ValidationError", None, <<>>)) ELSE Ok(s)

try_from(value) == NonEmptyString_new(value)

visit_str(value) ==
    IF value = "" THEN Err(Error("DeserializationError", None, <<>>)) ELSE Ok(value)

\* the maps of at most MaxVars keys
VarsValues ==
    UNION {[K -> {"1"}] : K \in SUBSET {"k" \o ToString(i) : i \in 1..MaxVars}}

\* the orders in which a HashMap may iterate over its keys
Orders(map) ==
    {o \in [1..Cardinality(DOMAIN map) -> DOMAIN map] :
        \A i, j \in DOMAIN o : i # j => o[i] # o[j]}

as_args(map, order) ==
    Concat([i \in 1..Len(order) |-> <<"--var", order[i] \o "=" \o map[order[i]]>>])

TheRunContext ==
    [repo |-> "r", path |-> "p", branch |-> "main", commit |-> "c0", url |-> "u",
     username |-> "me", user_id |-> "7", scm_type |-> "GITHUB"]

Lists(S) == SeqsUpTo(S, MaxList)

\* the values of an optional field, None only unless every is set
Opt(every, S) == IF every THEN OptionOf(S) ELSE {None}

\* the values of a list field, the empty list only unless every is set
ListOf(every, S) == IF every THEN Lists(S) ELSE {<<>>}

LoginParams == [ty : {"LoginParams"}, token : {"", "tok"}]

LogoutParams == [ty : {"none"}]

\* the parameter objects of each struct: opts and lists say whether the optional
\* and the list fields take every value or stay absent, B gives the values of a
\* flag, V those of vars
MigratePushParams(opts, V) ==
    [ty : {"MigratePushParams"},
     name : {"app", ""},
     tag : OptionOf({"v1", ""}),
     dev_url : Opt(opts, {"docker://dev"}),
     dir_url : Opt(opts, {"file://migrations"}),
     dir_format : Opt(opts, {"atlas"}),
     lock_timeout : Opt(opts, {"10s"}),
     context : OptionOf({TheRunContext}),
     config_url : OptionOf({"file://atlas.hcl"}),
     env : Opt(opts, {"prod"}),
     vars : V]

MigrateApplyParams(opts, B, V) ==
    [ty : {"MigrateApplyParams"},
     env : OptionOf({"prod"}),
     config_url : Opt(opts, {"file://atlas.hcl"}),
     context : Opt(opts, {[trigger_type |-> "Cli", trigger_version |-> "v0.1"]}),
     dir_url : Opt(opts, {"file://migrations"}),
     allow_dirty : B,
     url : Opt(opts, {"sqlite://db"}),
     revisions_schema : Opt(opts, {"revs"}),
     baseline_version : Opt(opts, {"1"}),
     tx_mode : Opt(opts, {"file"}),
     exec_order : Opt(opts, {"Linear", "LinearSkip", "NonLinear"}),
     amount : {0, 5},
     dry_run : BOOLEAN,
     vars : V]

MigrateDownParams(opts, V) ==
    [ty : {"MigrateDownParams"},
     env : Opt(opts, {"prod"}),
     config_url : Opt(opts, {"file://atlas.hcl"}),
     dev_url : Opt(opts, {"docker://dev"}),
     context : Opt(opts, {[trigger_type |-> "Cli", trigger_version |-> "v0.1"]}),
     dir_url : Opt(opts, {"file://migrations"}),
     url : Opt(opts, {"sqlite://db"}),
     revisions_schema : Opt(opts, {"revs"}),
     amount : {0, 5},
     to_version : OptionOf({"1"}),
     to_tag : Opt(opts, {"v1"}),
     vars : V]

SchemaApplyParams(opts, lists, V) ==
    [ty : {"SchemaApplyParams"},
     env : Opt(opts, {"prod"}),
     config_url : Opt(opts, {"file://atlas.hcl"}),
     dev_url : Opt(opts, {"docker://dev"}),
     dry_run : BOOLEAN,
     tx_mode : Opt(opts, {"file"}),
     exclude : ListOf(lists, {"tmp"}),
     schema : ListOf(lists, {"public", "audit"}),
     to : Opt(opts, {"file://schema.hcl"}),
     url : OptionOf({"sqlite://db"}),
     vars : V]

SchemaInspectParams(opts, lists, V) ==
    [ty : {"SchemaInspectParams"},
     env : Opt(opts, {"prod"}),
     config_url : Opt(opts, {"file://atlas.hcl"}),
     dev_url : Opt(opts, {"docker://dev"}),
     exclude : ListOf(lists, {"tmp"}),
     format : OptionOf({"sql", "SQL", "{{ json . }}"}),
     schema : ListOf(lists, {"public", "audit"}),
     url : Opt(opts, {"sqlite://db"}),
     vars : V]

\* the optional string fields of each parameter struct, with the type they wrap
OptionalStringFields(struct) ==
    CASE struct = "MigratePushParams" ->
            [tag |-> "String", dev_url |-> "NonEmptyString", dir_url |-> "NonEmptyString",
             dir_format |-> "NonEmptyString", lock_timeout |-> "NonEmptyString",
             config_url |-> "NonEmptyString", env |-> "NonEmptyString"]
      [] struct = "MigrateApplyParams" ->
            [env |-> "NonEmptyString", config_url |-> "NonEmptyString",
             dir_url |-> "NonEmptyString", url |-> "NonEmptyString",
             revisions_schema |-> "NonEmptyString",
             baseline_version |-> "NonEmptyString", tx_mode |-> "NonEmptyString"]
      [] struct = "MigrateDownParams" ->
            [env |-> "NonEmptyString", config_url |-> "NonEmptyString",
             dev_url |-> "NonEmptyString", dir_url |-> "NonEmptyString",
             url |-> "NonEmptyString", revisions_schema |-> "NonEmptyString",
             to_version |-> "NonEmptyString", to_tag |-> "NonEmptyString"]
      [] struct = "SchemaApplyParams" ->
            [env |-> "NonEmptyString", config_url |-> "NonEmptyString",
             dev_url |-> "NonEmptyString", tx_mode |-> "NonEmptyString",
             to |-> "NonEmptyString", url |-> "NonEmptyString"]
      [] struct = "SchemaInspectParams" ->
            [env |-> "NonEmptyString", config_url |-> "NonEmptyString",
             dev_url |-> "NonEmptyString", format |-> "NonEmptyString",
             url |-> "NonEmptyString"]

----------------------------------------------------------------------------
(* Building the argument vector *)

\* if let Some(ref x) = field { args.append(&mut vec![flag, x.as_str()]) }
Flag(flag, field) == IF IsSome(field) THEN <<flag, Unwrap(field)>> ELSE <<>>

\* if field { args.append(&mut vec![flag]) }
Switch(flag, field) == IF field THEN <<flag>> ELSE <<>>

\* if !list.is_empty() { args.append(&mut vec![flag, &list.join(",")]) }
Joined(flag, list) == IF list # <<>> THEN <<flag, JoinStr(list, ",")>> ELSE <<>>

\* if amount > 0 { args.push(&amount.to_string()) }
Amount(amount) == IF amount > 0 THEN <<ToString(amount)>> ELSE <<>>

login_args(p) == <<"login", "--token", p.token>>

logout_args == <<"logout">>

migrate_push_args(p) ==
    <<"migrate", "push">>
        \o Flag("--dev-url", p.dev_url)
        \o Flag("--dir", p.dir_url)
        \o Flag("--dir-format", p.dir_format)
        \o Flag("--lock-timeout", p.lock_timeout)
        \o (IF IsSome(p.context)
            THEN <<"--config", to_json_string("RunContext", Unwrap(p.context))>>
            ELSE <<>>)
        \o Flag("--config", p.config_url)
        \o Flag("--env", p.env)
        \o (IF IsSome(p.tag) THEN <<p.name \o ":" \o Unwrap(p.tag)>> ELSE <<p.name>>)

\* an argv with --dry-run after the amount; C6_MigrateApplyArgv tells it apart from
\* migrate_apply_args
migrate_apply_args_mut(p, order) ==
    <<"migrate", "apply", "--format", "{{ json . }}">>
        \o Flag("--env", p.env)
        \o Flag("--config", p.config_url)
        \o (IF IsSome(p.context)
            THEN <<"--context", to_json_string("DeployRunContext", Unwrap(p.context))>>
            ELSE <<>>)
        \o Flag("--url", p.url)
        \o Flag("--dir", p.dir_url)
        \o Switch("--allow-dirty", p.allow_dirty)
        \o Flag("--revisions-schema", p.revisions_schema)
        \o Flag("baseline", p.baseline_version)
        \o Flag("--tx-mode", p.tx_mode)
        \o (IF IsSome(p.exec_order)
            THEN <<"--exec-order", MigrateExecOrder(Unwrap(p.exec_order))>>
            ELSE <<>>)
        \o Amount(p.amount)
        \o Switch("--dry-run", p.dry_run)
        \o as_args(p.vars, order)

migrate_apply_args(p, order) ==
    <<"migrate", "apply", "--format", "{{ json . }}">>
        \o Flag("--env", p.env)
        \o Flag("--config", p.config_url)
        \o (IF IsSome(p.context)
            THEN <<"--context", to_json_string("DeployRunContext", Unwrap(p.context))>>
            ELSE <<>>)
        \o Flag("--url", p.url)
        \o Flag("--dir", p.dir_url)
        \o Switch("--allow-dirty", p.allow_dirty)
        \o Switch("--dry-run", p.dry_run)
        \o Flag("--revisions-schema", p.revisions_schema)
        \o Flag("baseline", p.baseline_version)
        \o Flag("--tx-mode", p.tx_mode)
        \o (IF IsSome(p.exec_order)
            THEN <<"--exec-order", MigrateExecOrder(Unwrap(p.exec_order))>>
            ELSE <<>>)
        \o Amount(p.amount)
        \o as_args(p.vars, order)

migrate_down_args(p, order) ==
    <<"migrate", "down", "--format", "{{ json .}}">>
        \o Flag("--env", p.env)
        \o Flag("--config", p.config_url)
        \o Flag("--dev-url", p.dev_url)
        \o (IF IsSome(p.context)
            THEN <<"--context", to_json_string("DeployRunContext", Unwrap(p.context))>>
            ELSE <<>>)
        \o Flag("--url", p.url)
        \o Flag("--dir", p.dir_url)
        \o Flag("--revisions-schema", p.revisions_schema)
        \o Flag("--to-version", p.to_version)
        \o Flag("--to-tag", p.to_tag)
        \o Amount(p.amount)
        \o as_args(p.vars, order)

\* an argv without --auto-approve; C8_SchemaApplyArgv tells it apart from
\* schema_apply_args
schema_apply_args_mut(p, order) ==
    <<"schema", "apply", "--format", "{{ json .}}">>
        \o Flag("--env", p.env)
        \o Flag("--config", p.config_url)
        \o Flag("--url", p.url)
        \o Flag("--to", p.to)
        \o Switch("--dry-run", p.dry_run)
        \o Flag("--tx-mode", p.tx_mode)
        \o Flag("--dev-url", p.dev_url)
        \o Joined("--schema", p.schema)
        \o Joined("--exclude", p.exclude)
        \o as_args(p.vars, order)

schema_apply_args(p, order) ==
    <<"schema", "apply", "--format", "{{ json .}}">>
        \o Flag("--env", p.env)
        \o Flag("--config", p.config_url)
        \o Flag("--url", p.url)
        \o Flag("--to", p.to)
        \o (IF p.dry_run THEN <<"--dry-run">> ELSE <<"--auto-approve">>)
        \o Flag("--tx-mode", p.tx_mode)
        \o Flag("--dev-url", p.dev_url)
        \o Joined("--schema", p.schema)
        \o Joined("--exclude", p.exclude)
        \o as_args(p.vars, order)

\* an argv that passes every format as --format; C9_SchemaInspectArgv tells it apart
\* from schema_inspect_args
schema_inspect_args_mut(p) ==
    <<"schema", "inspect">>
        \o Flag("--env", p.env)
        \o Flag("--config", p.config_url)
        \o Flag("--url", p.url)
        \o Flag("--dev-url", p.dev_url)
        \o Flag("--format", p.format)
        \o Joined("--schema", p.schema)
        \o Joined("--exclude", p.exclude)

schema_inspect_args(p) ==
    <<"schema", "inspect">>
        \o Flag("--env", p.env)
        \o Flag("--config", p.config_url)
        \o Flag("--url", p.url)
        \o Flag("--dev-url", p.dev_url)
        \o (IF IsSome(p.format)
            THEN IF Unwrap(p.format) = "sql"
                 THEN <<"format", "{{ sql .}}">>
                 ELSE <<"--format", Unwrap(p.format)>>
            ELSE <<>>)
        \o Joined("--schema", p.schema)
        \o Joined("--exclude", p.exclude)

----------------------------------------------------------------------------
(* What the external process does *)

\* Command::output failed: no process ran
SpawnFailed == [spawn |-> FALSE, status |-> 0, stdout |-> <<>>, stderr |-> <<>>]

Exited(status, stdout, stderr) ==
    [spawn |-> TRUE, status |-> status, stdout |-> stdout, stderr |-> stderr]

StdoutUnits == {" ", Invalid, "oops"} \cup {DocumentText[d] : d \in StdoutDocuments}
StderrUnits == {"\n", Invalid, "boom"}

Outputs ==
    {SpawnFailed}
        \cup [spawn : {TRUE}, status : {0}, stdout : SeqsUpTo(StdoutUnits, MaxUnits),
              stderr : {<<>>, <<"warning", "\n">>}]
        \cup [spawn : {TRUE}, status : {1, 2},
              stdout : {<<>>, <<Invalid>>, <<DocumentText[JArr(<<ApplyObject>>)]>>},
              stderr : SeqsUpTo(StderrUnits, MaxUnits)]

\* the directories of the file system, and those that exist
ExistingDirs == {"/work", "/tmp"}
Dirs == ExistingDirs \cup {"/missing", ""}

\* a process starts only in a directory that exists (None inherits the caller's)
CanStartIn(dir) == IF IsNone(dir) THEN TRUE ELSE Unwrap(dir) \in ExistingDirs

\* the values ATLAS_NO_UPDATE_NOTIFIER may have in the environment of the caller:
\* not defined, defined as text, defined as bytes that are not valid Unicode
AmbientValues == {None, Some(<<"0">>), Some(<<Invalid>>)}

\* std::env::var: Err when the variable is not defined and when its value is not
\* valid Unicode
env_var(value) ==
    IF IsNone(value) THEN Err("NotPresent")
    ELSE IF ~from_utf8(Unwrap(value)).ok THEN Err("NotUnicode")
    ELSE Ok(to_string(Unwrap(value)))

\* the variable as the subprocess sees it: the override of cmd.env, or the
\* inherited value
command_env(value) == IF ~env_var(value).ok THEN Some(<<"1">>) ELSE value

\* the names a caller may pass as exec_path, and which::which on the PATH of the
\* model: the bytes of the path of the file it finds
ExecNames == {"", "atlas", "atlas-x", "missing"}

which(name) ==
    CASE name = "atlas" -> Ok(<<"/usr/bin/atlas">>)
      [] name = "atlas-x" -> Ok(<<"/opt/", Invalid, "/atlas-x">>)
      [] OTHER -> Err(Error("ExecutableNotFound", None, <<>>))

\* Path::to_str: None when the path is not valid UTF-8
to_str(path) == IF from_utf8(path).ok THEN Some(to_string(path)) ELSE None

\* std::fs::metadata
metadata(dir) ==
    IF dir \in ExistingDirs THEN Ok(<<>>)
    ELSE Err(Error("InvalidWorkingDir", None, <<dir>>))

----------------------------------------------------------------------------
(* The client: src/src/atlas.rs *)

Unit == <<>>                              \* the value ()

\* what a method call did: the argv it built, how many times it ran
\* Command::output, whether it handed stdout to serde_json, and what it returned
Call(args, spawns, dec, res) ==
    [argv |-> args, spawned |-> spawns, decoded |-> dec, result |-> res]

\* the non-zero exit: the error carries the status and the trimmed stderr
\* a failure that keeps the surrounding whitespace of stderr; C3_CommandFailed tells
\* it apart from command_failed
command_failed_mut(status, stderr) ==
    IF ~stderr.ok THEN Err(Error("EncodingError", None, <<>>))
    ELSE Err(Error("CommandFailed", Some(status), <<to_string(stderr.val)>>))

command_failed(status, stderr) ==
    IF ~stderr.ok THEN Err(Error("EncodingError", None, <<>>))
    ELSE Err(Error("CommandFailed", Some(status), <<to_string(trim(stderr.val))>>))

\* the zero exit: the trimmed stdout
command_output(stdout) ==
    IF ~stdout.ok THEN Err(Error("EncodingError", None, <<>>))
    ELSE Ok(to_string(trim(stdout.val)))

run_command(out) ==
    IF ~out.spawn THEN Err(Error("ProcessExecutionError", None, <<>>))
    ELSE IF out.status # 0 THEN command_failed(out.status, from_utf8(out.stderr))
    ELSE command_output(from_utf8(out.stdout))

\* a reduction that takes the first element of every non-empty list; C2_SingleResult
\* tells it apart from first_result
first_result_mut(res) ==
    IF ~res.ok THEN res
    ELSE IF Len(res.val) >= 1 THEN Ok(res.val[1])
    ELSE Err(Error("AmbiguousResult", None, <<>>))

first_result(res) ==
    IF ~res.ok THEN res
    ELSE IF Len(res.val) = 1 THEN Ok(res.val[1])
    ELSE Err(Error("AmbiguousResult", None, <<>>))

\* Result::map_err
map_err(res, e) == IF res.ok THEN res ELSE Err(e)

\* a method that returns () on success
unit_call(args, res) == Call(args, 1, FALSE, IF res.ok THEN Ok(Unit) ELSE res)

\* a login that does not look at the token; C12_Login tells it apart from login
login_mut(p, out) == unit_call(login_args(p), run_command(out))

login(p, out) ==
    IF p.token = ""
    THEN Call(<<>>, 0, FALSE, Err(Error("ValidationError", None, <<>>)))
    ELSE unit_call(login_args(p), run_command(out))

logout(out) == unit_call(logout_args, run_command(out))

migrate_push(p, out) == Call(migrate_push_args(p), 1, FALSE, run_command(out))

\* migrate_apply_slice from the return of run_command on
migrate_apply_decode(args, res_str) ==
    IF ~res_str.ok THEN Call(args, 1, FALSE, res_str)
    ELSE Call(args, 1, TRUE,
              map_err(from_str(TVec("MigrateApply"), res_str.val),
                      Error("DeserializationError", None, <<res_str.val>>)))

migrate_apply_slice(p, order, out) ==
    migrate_apply_decode(migrate_apply_args(p, order), run_command(out))

\* the single-result form of a call that returned a slice
single(slice) == [slice EXCEPT !.result = first_result(slice.result)]

migrate_apply(p, order, out) == single(migrate_apply_slice(p, order, out))

\* migrate_down from the return of run_command on
\* a migrate_down that runs the command again when it failed; C13_AtMostOneSpawn
\* tells it apart from migrate_down_decode
migrate_down_decode_mut(args, result_json) ==
    IF ~result_json.ok THEN Call(args, 2, FALSE, result_json)
    ELSE Call(args, 1, TRUE,
              first_result(map_err(from_str(TVec("MigrateDown"), result_json.val),
                                   Error("DeserializationError", None, <<>>))))

migrate_down_decode(args, result_json) ==
    IF ~result_json.ok THEN Call(args, 1, FALSE, result_json)
    ELSE Call(args, 1, TRUE,
              first_result(map_err(from_str(TVec("MigrateDown"), result_json.val),
                                   Error("DeserializationError", None, <<>>))))

migrate_down(p, order, out) ==
    migrate_down_decode(migrate_down_args(p, order), run_command(out))

\* schema_apply_slice from the return of run_command on
schema_apply_decode(args, res) ==
    IF ~res.ok THEN Call(args, 1, FALSE, res)
    ELSE Call(args, 1, TRUE,
              map_err(from_str(TVec("SchemaApply"), res.val),
                      Error("DeserializationError", None, <<res.val>>)))

schema_apply_slice(p, order, out) ==
    schema_apply_decode(schema_apply_args(p, order), run_command(out))

schema_apply(p, order, out) == single(schema_apply_slice(p, order, out))

schema_inspect(p, out) == Call(schema_inspect_args(p), 1, FALSE, run_command(out))

\* the checks of new on working_dir
new_working_dir(dir) ==
    IF IsNone(dir) THEN Ok(Unit)
    ELSE IF Unwrap(dir) = "" THEN Err(Error("ConfigError", None, <<>>))
    ELSE metadata(Unwrap(dir))

\* new from the resolved path on: path is Path::to_str of the file found,
\* checked the outcome of the checks on working_dir
new_resolved(dir, path, checked) ==
    IF IsNone(path) THEN Err(Error("ExecutableNotFound", None, <<>>))
    ELSE IF ~checked.ok THEN checked
    ELSE IF ~try_from(Unwrap(path)).ok THEN try_from(Unwrap(path))
    ELSE Ok([exec_path |-> try_from(Unwrap(path)).val, working_dir |-> dir])

\* a constructor that checks working_dir before it looks exec_path up;
\* C11_NewChecks tells it apart from new
new_mut(dir, name) ==
    IF name = "" THEN Err(Error("ConfigError", None, <<>>))
    ELSE IF ~new_working_dir(dir).ok THEN new_working_dir(dir)
    ELSE IF ~which(name).ok THEN which(name)
    ELSE new_resolved(dir, to_str(which(name).val), new_working_dir(dir))

new(dir, name) ==
    IF name = "" THEN Err(Error("ConfigError", None, <<>>))
    ELSE IF ~which(name).ok THEN which(name)
    ELSE new_resolved(dir, to_str(which(name).val), new_working_dir(dir))

\* the operation a caller hands to with_work_dir: a fn(&mut Client) that returns
\* Ok or Err at once, or calls a method of the client and returns what it got
Callbacks == {"ok", "err", "logout"}

Callback(f, out) ==
    CASE f = "ok" -> Call(<<>>, 0, FALSE, Ok(Unit))
      [] f = "err" -> Call(<<>>, 0, FALSE, Err(Error("CallerError", None, <<>>)))
      [] f = "logout" -> logout(out)

----------------------------------------------------------------------------
(* Actions: one per public method of the client *)

\* a method ran on the client: call is what it did, in the directory dir
Invoke(name, p, call, out, dir) ==
    /\ IsSome(exec_path)
    /\ IF call.spawned > 0 /\ out.spawn THEN CanStartIn(dir) ELSE TRUE
    /\ op' = name
    /\ params' = p
    /\ argv' = call.argv
    /\ spawned' = call.spawned
    /\ decoded' = call.decoded
    /\ cwd' = IF call.spawned > 0 THEN dir ELSE None
    /\ child_env' = IF call.spawned > 0 THEN command_env(ambient) ELSE None
    /\ output' = IF call.spawned > 0 THEN out ELSE SpawnFailed
    /\ result' = call.result
    /\ UNCHANGED <<exec_path, ambient>>

\* new returned res: the client it built is the client of the model
Construct(p, res) ==
    /\ op' = "new"
    /\ params' = p
    /\ exec_path' = IF res.ok THEN Some(res.val.exec_path) ELSE None
    /\ working_dir' = IF res.ok THEN res.val.working_dir ELSE None
    /\ argv' = <<>>
    /\ spawned' = 0
    /\ decoded' = FALSE
    /\ cwd' = None
    /\ child_env' = None
    /\ output' = SpawnFailed
    /\ result' = res
    /\ UNCHANGED ambient

Client_new(dir, name) ==
    /\ IsNone(exec_path)
    /\ Construct([ty |-> "new", working_dir |-> dir, exec_path |-> name],
                 new(dir, name))

Client_login(p, out) ==
    /\ p.ty = "LoginParams"
    /\ Invoke("login", p, login(p, out), out, working_dir)
    /\ UNCHANGED working_dir

Client_logout(p, out) ==
    /\ p.ty = "none"
    /\ Invoke("logout", p, logout(out), out, working_dir)
    /\ UNCHANGED working_dir

Client_migrate_push(p, out) ==
    /\ p.ty = "MigratePushParams"
    /\ Invoke("migrate_push", p, migrate_push(p, out), out, working_dir)
    /\ UNCHANGED working_dir

Client_migrate_apply(p, out) ==
    /\ p.ty = "MigrateApplyParams"
    /\ \E order \in Orders(p.vars) :
          Invoke("migrate_apply", p, migrate_apply(p, order, out), out, working_dir)
    /\ UNCHANGED working_dir

Client_migrate_apply_slice(p, out) ==
    /\ p.ty = "MigrateApplyParams"
    /\ \E order \in Orders(p.vars) :
          Invoke("migrate_apply_slice", p, migrate_apply_slice(p, order, out), out,
                 working_dir)
    /\ UNCHANGED working_dir

Client_migrate_down(p, out) ==
    /\ p.ty = "MigrateDownParams"
    /\ \E order \in Orders(p.vars) :
          Invoke("migrate_down", p, migrate_down(p, order, out), out, working_dir)
    /\ UNCHANGED working_dir

Client_schema_apply(p, out) ==
    /\ p.ty = "SchemaApplyParams"
    /\ \E order \in Orders(p.vars) :
          Invoke("schema_apply", p, schema_apply(p, order, out), out, working_dir)
    /\ UNCHANGED working_dir

Client_schema_apply_slice(p, out) ==
    /\ p.ty = "SchemaApplyParams"
    /\ \E order \in Orders(p.vars) :
          Invoke("schema_apply_slice", p, schema_apply_slice(p, order, out), out,
                 working_dir)
    /\ UNCHANGED working_dir

Client_schema_inspect(p, out) ==
    /\ p.ty = "SchemaInspectParams"
    /\ Invoke("schema_inspect", p, schema_inspect(p, out), out, working_dir)
    /\ UNCHANGED working_dir

\* with_work_dir: the directory is installed, then f runs on the client
Client_with_work_dir(dir, f, out) ==
    /\ Invoke("with_work_dir", [ty |-> "with_work_dir", dir |-> dir, f |-> f],
              Callback(f, out), out, dir)
    /\ working_dir' = dir

----------------------------------------------------------------------------
(* The client in use: any sequence of calls on a constructed client *)

\* the parameter objects and process outputs of the calls of Spec
SomePushParams ==
    {p \in MigratePushParams(FALSE, {<<>>}) : p.name = "app" /\ p.tag # Some("")}
SomeApplyParams == MigrateApplyParams(FALSE, {FALSE}, {<<>>})
SomeDownParams ==
    MigrateDownParams(FALSE, {v \in VarsValues : Cardinality(DOMAIN v) < 2})
SomeSchemaApplyParams == SchemaApplyParams(FALSE, FALSE, {<<>>})
SomeInspectParams == SchemaInspectParams(FALSE, FALSE, {<<>>})

SomeOutputs ==
    { SpawnFailed,
      Exited(0, <<DocumentText[JArr(<<ApplyObject>>)], " ">>, <<>>),
      Exited(0, <<DocumentText[JArr(<<>>)]>>, <<>>),
      Exited(0, <<DocumentText[JArr(<<SchemaObject>>)]>>, <<>>),
      Exited(1, <<>>, <<"boom", "\n">>) }

\* before the first call: no client yet
Init ==
    /\ exec_path = None
    /\ working_dir = None
    /\ ambient \in AmbientValues
    /\ child_env = None
    /\ op = "start"
    /\ params = [ty |-> "start"]
    /\ argv = <<>>
    /\ cwd = None
    /\ spawned = 0
    /\ decoded = FALSE
    /\ output = SpawnFailed
    /\ result = Ok(Unit)

Next ==
    \/ \E dir \in OptionOf(Dirs), name \in ExecNames : Client_new(dir, name)
    \/ \E p \in LoginParams, out \in SomeOutputs : Client_login(p, out)
    \/ \E p \in LogoutParams, out \in SomeOutputs : Client_logout(p, out)
    \/ \E p \in SomePushParams, out \in SomeOutputs : Client_migrate_push(p, out)
    \/ \E p \in SomeApplyParams, out \in SomeOutputs : Client_migrate_apply(p, out)
    \/ \E p \in SomeApplyParams, out \in SomeOutputs : Client_migrate_apply_slice(p, out)
    \/ \E p \in SomeDownParams, out \in SomeOutputs : Client_migrate_down(p, out)
    \/ \E p \in SomeSchemaApplyParams, out \in SomeOutputs : Client_schema_apply(p, out)
    \/ \E p \in SomeSchemaApplyParams, out \in SomeOutputs :
          Client_schema_apply_slice(p, out)
    \/ \E p \in SomeInspectParams, out \in SomeOutputs : Client_schema_inspect(p, out)
    \/ \E dir \in OptionOf(Dirs), f \in Callbacks, out \in SomeOutputs :
          Client_with_work_dir(dir, f, out)

Spec == Init /\ [][Next]_vars

----------------------------------------------------------------------------
(* Building the argument vector, for every parameter object *)

\* the client of the calls: new(Some("/work"), "atlas") built it
TheExecPath == new(Some("/work"), "atlas").val.exec_path

\* every combination of the fields that become flags, and every vars map next to
\* the fields whose arguments are its neighbours in the argv
AllPushParams == MigratePushParams(TRUE, VarsValues)
AllApplyParams ==
    MigrateApplyParams(TRUE, BOOLEAN, {<<>>})
        \cup MigrateApplyParams(FALSE, {FALSE}, VarsValues)
AllSchemaApplyParams ==
    SchemaApplyParams(TRUE, TRUE, {<<>>})
        \cup SchemaApplyParams(FALSE, TRUE, VarsValues)
AllInspectParams ==
    SchemaInspectParams(TRUE, TRUE, {<<>>})
        \cup SchemaInspectParams(FALSE, FALSE, VarsValues)

\* the tool exits zero and prints an empty list
Quiet == Exited(0, <<DocumentText[JArr(<<>>)], "\n">>, <<>>)

InitArgs ==
    /\ exec_path = Some(TheExecPath)
    /\ working_dir = Some("/work")
    /\ ambient = None
    /\ child_env = None
    /\ op = "new"
    /\ params \in AllPushParams \cup AllApplyParams \cup AllSchemaApplyParams
                    \cup AllInspectParams
    /\ argv = <<>>
    /\ cwd = None
    /\ spawned = 0
    /\ decoded = FALSE
    /\ output = SpawnFailed
    /\ result = Ok(Unit)

NextArgs ==
    \/ Client_migrate_push(params, Quiet)
    \/ Client_migrate_apply_slice(params, Quiet)
    \/ Client_schema_apply_slice(params, Quiet)
    \/ \E out \in SomeOutputs : Client_schema_inspect(params, out)

SpecArgs == InitArgs /\ [][NextArgs]_vars

----------------------------------------------------------------------------
(* Running the command, for every output of the process *)

RunParams ==
    LoginParams \cup LogoutParams
        \cup {p \in SomePushParams : p.tag = None /\ p.context = None /\ p.config_url = None}
        \cup {p \in SomeApplyParams : p.env = Some("prod") /\ p.amount = 5 /\ p.dry_run}
        \cup {p \in SomeDownParams : p.amount = 0 /\ p.to_version = None}
        \cup {p \in SomeSchemaApplyParams : p.url = None /\ p.dry_run}
        \cup {p \in SomeInspectParams : p.format = Some("sql")}

InitRun ==
    /\ exec_path = Some(TheExecPath)
    /\ working_dir = Some("/work")
    /\ ambient = None
    /\ child_env = None
    /\ op = "new"
    /\ params \in RunParams
    /\ argv = <<>>
    /\ cwd = None
    /\ spawned = 0
    /\ decoded = FALSE
    /\ output \in Outputs
    /\ result = Ok(Unit)

NextRun ==
    \/ Client_login(params, output)
    \/ Client_logout(params, output)
    \/ Client_migrate_push(params, output)
    \/ Client_migrate_apply(params, output)
    \/ Client_migrate_apply_slice(params, output)
    \/ Client_migrate_down(params, output)
    \/ Client_schema_apply(params, output)
    \/ Client_schema_apply_slice(params, output)
    \/ Client_schema_inspect(params, output)

SpecRun == InitRun /\ [][NextRun]_vars

----------------------------------------------------------------------------
(* Encoding a value of the response model and decoding it back *)

Serialize ==
    /\ op = "value"
    /\ op' = "to_string"
    /\ result' = Ok(to_json_string(params.ty, params.value))
    /\ UNCHANGED <<exec_path, working_dir, ambient, child_env, params, argv, cwd, spawned,
                   decoded, output>>

Deserialize ==
    /\ op = "to_string"
    /\ op' = "from_str"
    /\ result' = from_str(TStruct(params.ty), result.val)
    /\ decoded' = TRUE
    /\ UNCHANGED <<exec_path, working_dir, ambient, child_env, params, argv, cwd, spawned,
                   output>>

InitSerde ==
    /\ exec_path = Some(TheExecPath)
    /\ working_dir = None
    /\ ambient = None
    /\ child_env = None
    /\ op = "value"
    /\ \E struct \in {"File", "Env", "Changes"} :
          params \in [ty : {struct}, value : ValuesOf(struct)]
    /\ argv = <<>>
    /\ cwd = None
    /\ spawned = 0
    /\ decoded = FALSE
    /\ output = SpawnFailed
    /\ result = Ok(Unit)

NextSerde == Serialize \/ Deserialize

SpecSerde == InitSerde /\ [][NextSerde]_vars

----------------------------------------------------------------------------
(* Vocabulary of the properties *)

Count(seq, x) == Cardinality({i \in DOMAIN seq : seq[i] = x})

\* the first position of x in seq, 0 when it does not occur
Index(seq, x) ==
    IF Count(seq, x) = 0 THEN 0
    ELSE CHOOSE i \in DOMAIN seq : seq[i] = x /\ \A k \in 1..(i - 1) : seq[k] # x

\* the flag occurs once and the argument after it is value
Carries(seq, flag, value) ==
    /\ Count(seq, flag) = 1
    /\ Index(seq, flag) < Len(seq)
    /\ seq[Index(seq, flag) + 1] = value

\* the flag carries the value of a present field and is missing for an absent one
CarriesOption(seq, flag, field) ==
    IF IsSome(field) THEN Carries(seq, flag, Unwrap(field)) ELSE Count(seq, flag) = 0

\* the flag occurs once for a set switch and is missing for a cleared one
HasSwitch(seq, flag, field) == Count(seq, flag) = (IF field THEN 1 ELSE 0)

\* those of the tokens that occur in seq occur in the order of tokens
InOrder(seq, tokens) ==
    \A i, j \in DOMAIN tokens :
        i < j /\ Count(seq, tokens[i]) > 0 /\ Count(seq, tokens[j]) > 0
            => Index(seq, tokens[i]) < Index(seq, tokens[j])

\* seq starts with prefix
StartsWith(seq, prefix) ==
    Len(seq) >= Len(prefix) /\ SubSeq(seq, 1, Len(prefix)) = prefix

\* the last n arguments are the --var pairs of the map, each entry once
EndsWithVars(seq, map) ==
    LET n == 2 * Cardinality(DOMAIN map)
        tail == SubSeq(seq, Len(seq) - n + 1, Len(seq))
    IN  /\ Len(seq) >= n
        /\ \A i \in 1..n : i % 2 = 1 => tail[i] = "--var"
        /\ \A k \in DOMAIN map : Count(tail, k \o "=" \o map[k]) = 1

\* a sequence of units without the whitespace at its two ends
Trimmed(units) ==
    LET text == {i \in DOMAIN units : ~IsWhitespace(units[i])}
        first == CHOOSE i \in text : \A k \in text : i <= k
        last == CHOOSE i \in text : \A k \in text : k <= i
    IN  IF text = {} THEN <<>> ELSE SubSeq(units, first, last)

IsText(units) == \A i \in DOMAIN units : units[i] # Invalid

\* a call ran and its subprocess exited with this kind of status
Ran == op # "new" /\ spawned = 1 /\ output.spawn
ExitedZero == Ran /\ output.status = 0
ExitedNonZero == Ran /\ output.status # 0

Failed(kind) == ~result.ok /\ result.val.kind = kind

----------------------------------------------------------------------------
(* C1: with_work_dir is scoped: once it returns, with Ok or with Err, the    *)
(* working directory of the client is the one it had before the call.       *)

C1_Scoped == [][op' = "with_work_dir" => working_dir' = working_dir]_vars

----------------------------------------------------------------------------
(* C2: the single-result methods return the only element of a decoded       *)
(* sequence of length 1, fail with AmbiguousResult on a sequence of length  *)
(* 0 or of length 2 or more, and return the error of the slice step         *)
(* unchanged when that step failed.                                         *)

\* what the slice step of the call gave: the decoded sequence or its error
C2_Slice ==
    LET text == run_command(output)
        struct == CASE op = "migrate_apply" -> "MigrateApply"
                    [] op = "migrate_down" -> "MigrateDown"
                    [] op = "schema_apply" -> "SchemaApply"
        raw == IF op = "migrate_down" THEN <<>> ELSE <<text.val>>
    IN  IF ~text.ok THEN text
        ELSE map_err(from_str(TVec(struct), text.val),
                     Error("DeserializationError", None, raw))

C2_SingleResult ==
    op \in {"migrate_apply", "migrate_down", "schema_apply"} =>
        IF ~C2_Slice.ok THEN ~result.ok /\ result.val = C2_Slice.val
        ELSE IF Len(C2_Slice.val) = 1 THEN result.ok /\ result.val = C2_Slice.val[1]
        ELSE Failed("AmbiguousResult")

C2_Witness ==
    /\ op = "migrate_apply"
    /\ result.ok
    /\ result.val["current"] = "v1"

----------------------------------------------------------------------------
(* C3: whenever the subprocess exits with a non-zero status the call fails  *)
(* with CommandFailed carrying the status and the trimmed stderr, stdout is *)
(* not decoded and no typed result is returned.                             *)

\* as claimed: for every content of stdout and stderr
C3_Original ==
    ExitedNonZero =>
        /\ Failed("CommandFailed")
        /\ result.val.status = Some(output.status)
        /\ result.val.text = <<to_string(Trimmed(output.stderr))>>
        /\ ~decoded

\* as amended: CommandFailed when stderr is valid UTF-8, EncodingError when
\* it is not
C3_CommandFailed ==
    ExitedNonZero =>
        /\ ~decoded
        /\ IF IsText(output.stderr)
           THEN /\ Failed("CommandFailed")
                /\ result.val.status = Some(output.status)
                /\ result.val.text = <<to_string(Trimmed(output.stderr))>>
           ELSE Failed("EncodingError")

C3_Witness ==
    /\ ExitedNonZero
    /\ op = "migrate_apply"
    /\ output.stderr = <<"boom", "\n">>
    /\ output.stdout # <<>>
    /\ Failed("CommandFailed")

----------------------------------------------------------------------------
(* C4: stdout that omits the omit-if-empty fields decodes with those fields *)
(* at their zero value: migrate_apply on the stdout                         *)
(* [{"Current":"v1","Target":"v2","Applied":[]}] returns one MigrateApply   *)
(* with current v1, target v2 and pending, error, start, end at defaults.   *)

C4_OmittedFieldsDecode ==
    /\ op = "migrate_apply"
    /\ ExitedZero
    /\ to_string(Trimmed(output.stdout)) = DocumentText[JArr(<<ExampleObject>>)]
    => /\ result.ok
       /\ result.val["current"] = "v1"
       /\ result.val["target"] = "v2"
       /\ result.val["pending"] = <<>>
       /\ result.val["error"] = ""
       /\ result.val["start"] = default_time
       /\ result.val["end"] = default_time

----------------------------------------------------------------------------
(* C5: encoding the File, Env or Changes whose every field is empty and     *)
(* decoding the text succeeds and yields the zero-valued struct.            *)

Zero(struct) ==
    CASE struct = "File" -> [name |-> "", version |-> "", description |-> ""]
      [] struct = "Env" -> [driver |-> "", url |-> "", dir |-> ""]
      [] struct = "Changes" -> [applied |-> <<>>, pending |-> <<>>, error |-> None]

C5_RoundTrip ==
    op = "from_str" /\ params.value = Zero(params.ty) =>
        result.ok /\ result.val = Zero(params.ty)

----------------------------------------------------------------------------
(* C6: migrate_apply_slice builds the argv migrate apply --format           *)
(* {{ json . }} followed by the flags of the present fields in the order    *)
(* --env, --config, --context, --url, --dir, --allow-dirty, --dry-run,      *)
(* --revisions-schema, baseline, --tx-mode, --exec-order, the amount when   *)
(* it is positive, then the --var pairs; an absent field, a false switch    *)
(* and a zero amount add nothing. For env prod, amount 5, dry_run the argv  *)
(* is migrate apply --format {{ json . }} --env prod --dry-run 5.           *)

C6_Order ==
    << "--env", "--config", "--context", "--url", "--dir", "--allow-dirty",
       "--dry-run", "--revisions-schema", "baseline", "--tx-mode", "--exec-order",
       "5", "--var" >>

C6_ExecOrder(field) ==
    IF field = None THEN None
    ELSE CASE Unwrap(field) = "Linear" -> Some("linear")
           [] Unwrap(field) = "LinearSkip" -> Some("linear-skip")
           [] Unwrap(field) = "NonLinear" -> Some("non-linear")

C6_Context(field) ==
    IF field = None THEN None
    ELSE Some("{\"trigger_type\":\"CLI\",\"trigger_version\":\"v0.1\"}")

\* the number of arguments the present fields of p account for
C6_Length(p) ==
    4 + 2 * Cardinality({f \in {"env", "config_url", "context", "url", "dir_url",
                                "revisions_schema", "baseline_version", "tx_mode",
                                "exec_order"} : p[f] # None})
      + (IF p.allow_dirty THEN 1 ELSE 0) + (IF p.dry_run THEN 1 ELSE 0)
      + (IF p.amount > 0 THEN 1 ELSE 0) + 2 * Cardinality(DOMAIN p.vars)

C6_Example ==
    /\ params.env = Some("prod") /\ params.amount = 5 /\ params.dry_run
    /\ Len(argv) = 8

C6_MigrateApplyArgv ==
    op = "migrate_apply_slice" =>
        /\ StartsWith(argv, <<"migrate", "apply", "--format", "{{ json . }}">>)
        /\ Len(argv) = C6_Length(params)
        /\ InOrder(argv, C6_Order)
        /\ CarriesOption(argv, "--env", params.env)
        /\ CarriesOption(argv, "--config", params.config_url)
        /\ CarriesOption(argv, "--context", C6_Context(params.context))
        /\ CarriesOption(argv, "--url", params.url)
        /\ CarriesOption(argv, "--dir", params.dir_url)
        /\ HasSwitch(argv, "--allow-dirty", params.allow_dirty)
        /\ HasSwitch(argv, "--dry-run", params.dry_run)
        /\ CarriesOption(argv, "--revisions-schema", params.revisions_schema)
        /\ CarriesOption(argv, "baseline", params.baseline_version)
        /\ CarriesOption(argv, "--tx-mode", params.tx_mode)
        /\ CarriesOption(argv, "--exec-order", C6_ExecOrder(params.exec_order))
        /\ HasSwitch(argv, "5", params.amount > 0)
        /\ EndsWithVars(argv, params.vars)
        /\ (C6_Example =>
                argv = <<"migrate", "apply", "--format", "{{ json . }}",
                         "--env", "prod", "--dry-run", "5">>)

C6_Witness ==
    /\ op = "migrate_apply_slice"
    /\ C6_Example
    /\ spawned = 1

----------------------------------------------------------------------------
(* C7: migrate_push builds the argv migrate push followed by the optional   *)
(* flags in the order --dev-url, --dir, --dir-format, --lock-timeout,       *)
(* --config, --env, each flag at most once (also when both context and      *)
(* config_url are set), and ends with exactly one positional argument: name *)
(* when tag is absent and name:tag when it is present.                      *)

C7_Order == <<"--dev-url", "--dir", "--dir-format", "--lock-timeout", "--config", "--env">>

C7_Positional(p) == IF p.tag = None THEN p.name ELSE p.name \o ":" \o Unwrap(p.tag)

C7_MigratePushArgv ==
    op = "migrate_push" =>
        /\ StartsWith(argv, <<"migrate", "push">>)
        /\ InOrder(argv, C7_Order)
        /\ \A i \in DOMAIN C7_Order : Count(argv, C7_Order[i]) <= 1
        /\ CarriesOption(argv, "--dev-url", params.dev_url)
        /\ CarriesOption(argv, "--dir", params.dir_url)
        /\ CarriesOption(argv, "--dir-format", params.dir_format)
        /\ CarriesOption(argv, "--lock-timeout", params.lock_timeout)
        /\ CarriesOption(argv, "--env", params.env)
        /\ Count(argv, "--config") > 0 <=> params.context # None \/ params.config_url # None
        /\ argv[Len(argv)] = C7_Positional(params)
        /\ Len(argv) = 3 + 2 * Cardinality({i \in DOMAIN C7_Order : Count(argv, C7_Order[i]) > 0})

----------------------------------------------------------------------------
(* C8: schema_apply_slice puts exactly one of --dry-run and --auto-approve  *)
(* in the argv, --dry-run iff params.dry_run, after --env, --config, --url, *)
(* --to and before --tx-mode, --dev-url, --schema, --exclude and the --var  *)
(* pairs; --schema and --exclude carry the list joined with commas as one   *)
(* value and are missing when the list is empty.                            *)

C8_Approval == IF params.dry_run THEN "--dry-run" ELSE "--auto-approve"

C8_Order ==
    << "--env", "--config", "--url", "--to", C8_Approval, "--tx-mode", "--dev-url",
       "--schema", "--exclude", "--var" >>

C8_Csv(list) == IF list = <<>> THEN None ELSE Some(JoinStr(list, ","))

C8_SchemaApplyArgv ==
    op = "schema_apply_slice" =>
        /\ Count(argv, "--dry-run") + Count(argv, "--auto-approve") = 1
        /\ Count(argv, "--dry-run") = 1 <=> params.dry_run
        /\ InOrder(argv, C8_Order)
        /\ CarriesOption(argv, "--schema", C8_Csv(params.schema))
        /\ CarriesOption(argv, "--exclude", C8_Csv(params.exclude))
        /\ (params.schema = <<"public", "audit">> => Carries(argv, "--schema", "public,audit"))

C8_Witness ==
    /\ op = "schema_apply_slice"
    /\ ~params.dry_run
    /\ params.schema = <<"public", "audit">>
    /\ params.exclude # <<>>
    /\ params.to # None /\ params.tx_mode # None
    /\ Count(argv, "--auto-approve") = 1

----------------------------------------------------------------------------
(* C9: schema_inspect builds the argv schema inspect followed by --env,     *)
(* --config, --url, --dev-url, the format flag, --schema, --exclude in that *)
(* order; the format flag is format {{ sql .}} when params.format is "sql", *)
(* --format and the value for another present value, nothing when format is *)
(* absent. On zero exit the trimmed stdout is returned as raw text, without *)
(* JSON decoding.                                                           *)

C9_Order ==
    <<"--env", "--config", "--url", "--dev-url", "format", "--format", "--schema", "--exclude">>

C9_Format(flag) ==
    IF params.format = None THEN None
    ELSE IF (flag = "format") = (params.format = Some("sql"))
         THEN (IF flag = "format" THEN Some("{{ sql .}}") ELSE params.format)
         ELSE None

C9_SchemaInspectArgv ==
    op = "schema_inspect" =>
        /\ StartsWith(argv, <<"schema", "inspect">>)
        /\ InOrder(argv, C9_Order)
        /\ CarriesOption(argv, "--env", params.env)
        /\ CarriesOption(argv, "--config", params.config_url)
        /\ CarriesOption(argv, "--url", params.url)
        /\ CarriesOption(argv, "--dev-url", params.dev_url)
        /\ CarriesOption(argv, "format", C9_Format("format"))
        /\ CarriesOption(argv, "--format", C9_Format("--format"))
        /\ CarriesOption(argv, "--schema", C8_Csv(params.schema))
        /\ CarriesOption(argv, "--exclude", C8_Csv(params.exclude))
        /\ Len(argv) = 2 + 2 * Cardinality({i \in DOMAIN C9_Order : Count(argv, C9_Order[i]) > 0})
        /\ ~decoded
        /\ (ExitedZero /\ IsText(output.stdout) =>
                result.ok /\ result.val = to_string(Trimmed(output.stdout)))

C9_Witness ==
    /\ op = "schema_inspect"
    /\ params.format = Some("sql")
    /\ params.dev_url # None /\ params.schema # <<>>
    /\ ExitedZero
    /\ Len(Trimmed(output.stdout)) < Len(output.stdout)
    /\ result.ok

----------------------------------------------------------------------------
(* C10: for each operation that produces JSON, when the subprocess exits    *)
(* zero and stdout does not match the expected shape, the call fails with a *)
(* DeserializationError that carries the raw trimmed stdout.                *)

C10_Struct ==
    CASE op \in {"migrate_apply", "migrate_apply_slice"} -> "MigrateApply"
      [] op = "migrate_down" -> "MigrateDown"
      [] op \in {"schema_apply", "schema_apply_slice"} -> "SchemaApply"

C10_DeserializationError ==
    /\ op \in {"migrate_apply", "migrate_apply_slice", "migrate_down", "schema_apply",
               "schema_apply_slice"}
    /\ ExitedZero
    /\ IsText(output.stdout)
    /\ ~from_str(TVec(C10_Struct), to_string(Trimmed(output.stdout))).ok
    => /\ Failed("DeserializationError")
       /\ result.val.text = <<to_string(Trimmed(output.stdout))>>

----------------------------------------------------------------------------
(* C11: new returns a client only when exec_path is not empty and resolves  *)
(* on PATH and working_dir is None or a non-empty path that exists;         *)
(* otherwise it fails with the error of the first failing check in the      *)
(* order: empty exec_path (ConfigError), resolution failure                 *)
(* (ExecutableNotFound), empty working_dir (ConfigError), working_dir that  *)
(* does not exist (InvalidWorkingDir). new spawns no subprocess.            *)

\* the name resolves to a file whose path is text
C11_Resolves(name) == which(name).ok /\ IsText(which(name).val)

\* what the call of new of this state is to give, check by check
C11_Expected ==
    IF params.exec_path = "" THEN "ConfigError"
    ELSE IF ~C11_Resolves(params.exec_path) THEN "ExecutableNotFound"
    ELSE IF params.working_dir = Some("") THEN "ConfigError"
    ELSE IF params.working_dir # None /\ Unwrap(params.working_dir) \notin ExistingDirs
         THEN "InvalidWorkingDir"
    ELSE "Client"

C11_NewChecks ==
    op = "new" /\ params.ty = "new" =>
        /\ spawned = 0 /\ argv = <<>> /\ cwd = None
        /\ IF C11_Expected = "Client"
           THEN result.ok /\ exec_path # None /\ working_dir = params.working_dir
           ELSE Failed(C11_Expected) /\ exec_path = None

C11_Witness ==
    /\ op = "new" /\ params.ty = "new"
    /\ params.exec_path = "missing"
    /\ params.working_dir = Some("")
    /\ Failed("ExecutableNotFound")
    /\ spawned = 0

----------------------------------------------------------------------------
(* C12: login with an empty token fails with ValidationError and spawns no  *)
(* subprocess; login with a non-empty token spawns exactly one subprocess   *)
(* with the argv login --token <token>.                                     *)

C12_Login ==
    op = "login" =>
        IF params.token = ""
        THEN Failed("ValidationError") /\ spawned = 0 /\ argv = <<>> /\ cwd = None
        ELSE spawned = 1 /\ argv = <<"login", "--token", params.token>>

C12_Witness ==
    /\ op = "login"
    /\ params.token = ""
    /\ Failed("ValidationError")
    /\ spawned = 0

----------------------------------------------------------------------------
(* C13: every method call spawns the external process at most once: after a *)
(* spawn failure, a non-zero exit, an encoding error, a decode error or an  *)
(* AmbiguousResult the error is returned and no second subprocess is        *)
(* started within the call.                                                 *)

C13_Failures ==
    { "ProcessExecutionError", "CommandFailed", "EncodingError", "DeserializationError",
      "AmbiguousResult" }

C13_AtMostOneSpawn ==
    /\ spawned <= 1
    /\ \A kind \in C13_Failures : Failed(kind) => spawned = 1

C13_Witness ==
    /\ op = "migrate_down"
    /\ ExitedZero
    /\ Failed("AmbiguousResult")
    /\ spawned = 1

----------------------------------------------------------------------------
(* C14: in every subprocess invocation, when the environment of the caller  *)
(* defines ATLAS_NO_UPDATE_NOTIFIER, with any value, valid Unicode or not,  *)
(* no override is added and the subprocess sees that value; when it does    *)
(* not define it, the subprocess sees ATLAS_NO_UPDATE_NOTIFIER=1.           *)

C14_UpdateNotifier ==
    spawned > 0 => child_env = (IF ambient # None THEN ambient ELSE Some(<<"1">>))

----------------------------------------------------------------------------
(* C15: no optional string field of a parameter object is ever present but  *)
(* empty: NonEmptyString::new, TryFrom<String> and deserialization all fail *)
(* on the empty string, and no parameter struct has an optional string      *)
(* field that accepts Some("").                                             *)

C15_NeverPresentButEmpty ==
    /\ ~NonEmptyString_new("").ok
    /\ ~try_from("").ok
    /\ ~visit_str("").ok
    /\ op # "new" =>
          \A field \in DOMAIN OptionalStringFields(params.ty) :
              params[field] # Some("")

----------------------------------------------------------------------------
(* C16: in every state reachable by new followed by calls of with_work_dir  *)
(* and of the operations, working_dir is None or a non-empty path that was  *)
(* checked to exist, so that run_command never hands an empty or unchecked  *)
(* directory to the subprocess as its cwd.                                  *)

\* the directory passes the checks new applies to working_dir
C16_Checked(dir) ==
    IF dir = None THEN TRUE ELSE Unwrap(dir) # "" /\ Unwrap(dir) \in ExistingDirs

C16_WorkingDirChecked == C16_Checked(working_dir) /\ C16_Checked(cwd)

====
